---- MODULE Spec2Model ----
(***************************************************************************)
(* A model of the commit validator: main.rs (argument echo, range          *)
(* resolution, the per-commit validation loop, the summary and the exit    *)
(* code), git_utils.rs (get_commit_messages) and jira_utils.rs             *)
(* (extract_jira_keys, check_jira_issue_exists).                           *)
(*                                                                         *)
(* Texts that the program scans (commit summaries, ticket keys) are        *)
(* sequences of one-character strings; texts that are only printed or      *)
(* compared are strings.                                                   *)
(***************************************************************************)
EXTENDS Integers, Sequences, FiniteSets, TLC

(***************************************************************************)
(* Bounds of the model.                                                    *)
(***************************************************************************)
\* Number of commits of the repository of a run (Spec): a linear history.
MaxCommits == 3
\* Number of commits of the repositories of SpecResolve: any history.
GraphCommits == 4
\* Longest text given to the key extractor in SpecExtract.
MaxTextLen == 6
\* HTTP status codes given to the existence check in SpecCheck.
MinStatus == 100
MaxStatus == 640

(***************************************************************************)
(* Program constants: the status codes check_jira_issue_exists names.      *)
(***************************************************************************)
StatusOK == 200
StatusNotFound == 404
StatusUnauthorized == 401
StatusForbidden == 403

VARIABLES
    pc,                   \* position of main: see the actions below
    repo,                 \* the repository in ".": [parents, ctime, message]
    fault,                \* which libgit2 call fails in this run, if any
    args,                 \* Args: jira_url, username, api_token, start_ref, end_ref
    commits_info_result,  \* main.rs:53
    index,                \* main.rs:74, 0-based position of the loop
    jira_keys,            \* main.rs:78, keys of the commit being validated
    validation_infos,     \* main.rs:70
    valid_commits_count,  \* main.rs:71
    stdout,               \* lines printed with println!/print!
    stderr,               \* lines printed with eprintln!
    exit_code,            \* std::process::exit argument, -1 while running
    tracker,              \* requests the tracker has received, with its answers
    fn_in,                \* input of the pure function under SpecExtract/SpecCheck
    fn_out                \* its result

vars == <<pc, repo, fault, args, commits_info_result, index, jira_keys,
          validation_infos, valid_commits_count, stdout, stderr, exit_code,
          tracker, fn_in, fn_out>>

(***************************************************************************)
(* Text helpers.                                                           *)
(***************************************************************************)
\* The string spelled by a sequence of characters.
Str(chars) ==
    LET from[i \in 1..(Len(chars) + 1)] ==
            IF i > Len(chars) THEN "" ELSE chars[i] \o from[i + 1]
    IN  from[1]

RECURSIVE Reverse(_)
Reverse(s) == IF s = <<>> THEN <<>> ELSE Reverse(Tail(s)) \o <<Head(s)>>

RECURSIVE JoinKeys(_)
\* Vec<String>::join(", ")
JoinKeys(keys) ==
    IF keys = <<>> THEN ""
    ELSE IF Len(keys) = 1 THEN Str(keys[1])
    ELSE Str(keys[1]) \o ", " \o JoinKeys(Tail(keys))

(***************************************************************************)
(* jira_utils.rs: extract_jira_keys.  The regex ([A-Z]+-[0-9]+) is run by  *)
(* captures_iter: from the current position the leftmost match is taken,   *)
(* both repetitions greedy, and the search resumes at the end of the match.*)
(***************************************************************************)
UpperCase ==
    {"A","B","C","D","E","F","G","H","I","J","K","L","M",
     "N","O","P","Q","R","S","T","U","V","W","X","Y","Z"}

Digits == {"0","1","2","3","4","5","6","7","8","9"}

\* A variant of IsUpper that ignores case, as the regex would with (?i).
IsUpperAnyCase(c) == c \in UpperCase \cup {"a","b","c","d","e","f","g","h","i","j","k","l","m",
                                        "n","o","p","q","r","s","t","u","v","w","x","y","z"}

\* [A-Z]
IsUpper(c) == c \in UpperCase

\* [0-9]
IsDigit(c) == c \in Digits

RECURSIVE UpperRunEnd(_, _)
\* First position at or after i that does not hold an uppercase letter.
UpperRunEnd(text, i) ==
    IF i <= Len(text) /\ IsUpper(text[i]) THEN UpperRunEnd(text, i + 1) ELSE i

RECURSIVE DigitRunEnd(_, _)
\* First position at or after i that does not hold a digit.
DigitRunEnd(text, i) ==
    IF i <= Len(text) /\ IsDigit(text[i]) THEN DigitRunEnd(text, i + 1) ELSE i

\* The position after the match of [A-Z]+-[0-9]+ that starts at s, 0 if none.
MatchEnd(text, s) ==
    LET h == UpperRunEnd(text, s)
        d == DigitRunEnd(text, h + 1)
    IN  IF h > s /\ h <= Len(text) /\ text[h] = "-" /\ d > h + 1 THEN d ELSE 0

\* [A-Za-z0-9_], the characters of a word.
IsWordChar(c) ==
    \/ c \in UpperCase \/ c \in Digits \/ c = "_"
    \/ c \in {"a","b","c","d","e","f","g","h","i","j","k","l","m",
              "n","o","p","q","r","s","t","u","v","w","x","y","z"}

\* A variant of captures_iter for the regex \b([A-Z]+-[0-9]+)\b: a match
\* must begin and end at a word boundary.
captures_iter_whole_words(text, at) ==
    LET from[i \in 1..(Len(text) + 1)] ==
            IF i > Len(text) THEN <<>>
            ELSE LET e == MatchEnd(text, i)
                     bounded == /\ e # 0
                                /\ i = 1 \/ ~IsWordChar(text[i - 1])
                                /\ e > Len(text) \/ ~IsWordChar(text[e])
                 IN  IF ~bounded THEN from[i + 1]
                     ELSE <<SubSeq(text, i, e - 1)>> \o from[e]
    IN  from[at]

\* The matches found from position at on: where no match starts the search
\* moves one character on, after a match it resumes at the end of the match.
captures_iter(text, at) ==
    LET from[i \in 1..(Len(text) + 1)] ==
            IF i > Len(text) THEN <<>>
            ELSE LET e == MatchEnd(text, i)
                 IN  IF e = 0 THEN from[i + 1]
                     ELSE <<SubSeq(text, i, e - 1)>> \o from[e]
    IN  from[at]

extract_jira_keys(commit_message) == captures_iter(commit_message, 1)

(***************************************************************************)
(* jira_utils.rs: check_jira_issue_exists.  The remote answer is either a  *)
(* status code or a transport failure of send().                           *)
(***************************************************************************)
StatusResponse(code) == [kind |-> "status", code |-> code]
TransportFailure == [kind |-> "transport", code |-> 0]
Pending == [kind |-> "pending", code |-> 0]

ResultOk(v) == [tag |-> "Ok", val |-> v, err |-> ""]
ResultErr(msg) == [tag |-> "Err", val |-> FALSE, err |-> msg]

RECURSIVE Slashes(_)
Slashes(n) == IF n = 0 THEN "" ELSE "/" \o Slashes(n - 1)

\* A URL is its text without trailing slashes and the number of slashes after it.
UrlText(url) == url.base \o Slashes(url.slashes)

\* str::trim_end_matches('/')
TrimEndSlashes(url) == url.base

ApiUrl(jira_url, issue_key) ==
    TrimEndSlashes(jira_url) \o "/rest/api/2/issue/" \o Str(issue_key)

\* StatusCode::canonical_reason
CanonicalReason(code) ==
    CASE code = 100 -> "Continue" [] code = 101 -> "Switching Protocols"
      [] code = 102 -> "Processing" [] code = 200 -> "OK"
      [] code = 201 -> "Created" [] code = 202 -> "Accepted"
      [] code = 203 -> "Non Authoritative Information"
      [] code = 204 -> "No Content" [] code = 205 -> "Reset Content"
      [] code = 206 -> "Partial Content" [] code = 207 -> "Multi-Status"
      [] code = 208 -> "Already Reported" [] code = 226 -> "IM Used"
      [] code = 300 -> "Multiple Choices" [] code = 301 -> "Moved Permanently"
      [] code = 302 -> "Found" [] code = 303 -> "See Other"
      [] code = 304 -> "Not Modified" [] code = 305 -> "Use Proxy"
      [] code = 307 -> "Temporary Redirect" [] code = 308 -> "Permanent Redirect"
      [] code = 400 -> "Bad Request" [] code = 401 -> "Unauthorized"
      [] code = 402 -> "Payment Required" [] code = 403 -> "Forbidden"
      [] code = 404 -> "Not Found" [] code = 405 -> "Method Not Allowed"
      [] code = 406 -> "Not Acceptable"
      [] code = 407 -> "Proxy Authentication Required"
      [] code = 408 -> "Request Timeout" [] code = 409 -> "Conflict"
      [] code = 410 -> "Gone" [] code = 411 -> "Length Required"
      [] code = 412 -> "Precondition Failed" [] code = 413 -> "Payload Too Large"
      [] code = 414 -> "URI Too Long" [] code = 415 -> "Unsupported Media Type"
      [] code = 416 -> "Range Not Satisfiable" [] code = 417 -> "Expectation Failed"
      [] code = 418 -> "I'm a teapot" [] code = 421 -> "Misdirected Request"
      [] code = 422 -> "Unprocessable Entity" [] code = 423 -> "Locked"
      [] code = 424 -> "Failed Dependency" [] code = 426 -> "Upgrade Required"
      [] code = 428 -> "Precondition Required" [] code = 429 -> "Too Many Requests"
      [] code = 431 -> "Request Header Fields Too Large"
      [] code = 451 -> "Unavailable For Legal Reasons"
      [] code = 500 -> "Internal Server Error" [] code = 501 -> "Not Implemented"
      [] code = 502 -> "Bad Gateway" [] code = 503 -> "Service Unavailable"
      [] code = 504 -> "Gateway Timeout"
      [] code = 505 -> "HTTP Version Not Supported"
      [] code = 506 -> "Variant Also Negotiates"
      [] code = 507 -> "Insufficient Storage" [] code = 508 -> "Loop Detected"
      [] code = 510 -> "Not Extended"
      [] code = 511 -> "Network Authentication Required"
      [] OTHER -> "<unknown status code>"

\* Display of a StatusCode: the number and its canonical reason.
StatusDisplay(code) == ToString(code) \o " " \o CanonicalReason(code)

\* A variant of IsServerError without the upper end of the 5xx range.
IsServerErrorOpenEnded(code) == code >= 500

\* StatusCode::is_server_error
IsServerError(code) == code >= 500 /\ code < 600

\* The text of the reqwest error of a failed send().
TransportErrorText == "error sending request"

check_jira_issue_exists(jira_url, username, api_token, issue_key, response) ==
    LET api_url == ApiUrl(jira_url, issue_key)
        key == Str(issue_key)
    IN  IF response.kind = "transport"
        THEN ResultErr("Request to " \o api_url \o " failed: " \o TransportErrorText)
        ELSE CASE response.code = StatusOK -> ResultOk(TRUE)
               [] response.code = StatusNotFound -> ResultOk(FALSE)
               [] response.code = StatusUnauthorized ->
                    ResultErr("Unauthorized (401): Failed to authenticate with Jira at "
                              \o api_url \o ". Check credentials.")
               [] response.code = StatusForbidden ->
                    ResultErr("Forbidden (403): Insufficient permissions for Jira issue "
                              \o key \o " at " \o api_url \o ".")
               [] OTHER ->
                    IF IsServerError(response.code)
                    THEN ResultErr("Jira server error (" \o StatusDisplay(response.code)
                                   \o ") for issue " \o key \o " at " \o api_url \o ".")
                    ELSE ResultErr("Unexpected response status ("
                                   \o StatusDisplay(response.code)
                                   \o ") for issue " \o key \o " at " \o api_url \o ".")

(***************************************************************************)
(* The repository that Repository::open(".") opens: commits 1..n, a        *)
(* commit's parents are earlier commits (listed in parent order), each     *)
(* commit has a commit time and a message.  Reference names: the           *)
(* abbreviated hash of each commit, an annotated tag of the newest commit, *)
(* a tree, and a name that does not exist.                                 *)
(***************************************************************************)
CommitsOf(r) == DOMAIN r.parents

\* The newest commit, which the annotated tag names.
NewestCommit(r) == Len(r.parents)

CommitRef(c) == "c" \o ToString(c)
AnnotatedTagRef == "v1.0"
TreeRef == "HEAD^{tree}"
MissingRef == "nonexistent-branch"

RefNames(n) == {CommitRef(c) : c \in 1..n} \cup {AnnotatedTagRef, TreeRef, MissingRef}

Faults == {"none", "open", "revwalk", "find_commit"}

InitialCommit ==
    <<"I","n","i","t","i","a","l"," ","c","o","m","m","i","t">>
MsgValidKey ==
    <<"f","e","a","t",":"," ","P","R","O","J","-","1","2","3"," ","I","m","p","l","e","m","e","n","t"," ","f","e","a","t","u","r","e"," ","X">>
MsgNoKey ==
    <<"d","o","c","s",":"," ","U","p","d","a","t","e"," ","R","E","A","D","M","E"," ","w","i","t","h"," ","n","e","w"," ","i","n","s","t","r","u","c","t","i","o","n","s">>
MsgProjXyz ==
    <<"f","i","x",":"," ","P","R","O","J","-","X","Y","Z"," ","R","e","s","o","l","v","e"," ","n","o","n","-","e","x","i","s","t","e","n","t"," ","i","s","s","u","e">>
MsgProjAbc ==
    <<"f","e","a","t",":"," ","P","R","O","J","-","A","B","C"," ","I","m","p","l","e","m","e","n","t"," ","a"," ","r","e","a","l"," ","f","e","a","t","u","r","e">>
MsgTwoKeys ==
    <<"X","Y","Z","-","7","8","9",","," ","P","R","O","J","-","0","0","1">>
\* A message that is not valid UTF-8: Commit::summary() gives None for it.
MsgNotUtf8 == <<"\\xff">>
NoSummaryText ==
    <<"<","N","o"," ","c","o","m","m","i","t"," ","s","u","m","m","a","r","y",">">>

Messages == {MsgValidKey, MsgNoKey, MsgProjXyz, MsgProjAbc, MsgTwoKeys, MsgNotUtf8}

\* Repository::revparse_single: the object a name resolves to.
revparse_single(r, ref) ==
    IF \E c \in CommitsOf(r) : ref = CommitRef(c)
    THEN [kind |-> "commit", commit |-> CHOOSE c \in CommitsOf(r) : ref = CommitRef(c)]
    ELSE IF ref = AnnotatedTagRef THEN [kind |-> "tag", commit |-> NewestCommit(r)]
    ELSE IF ref = TreeRef THEN [kind |-> "tree", commit |-> 0]
    ELSE [kind |-> "error", commit |-> 0]

\* Object::as_commit: a cast, which does not peel a tag.
IsCommitObject(obj) == obj.kind = "commit"

\* Revwalk::push and Revwalk::hide peel the object to a commit.
IsCommittish(obj) == obj.kind \in {"commit", "tag"}

ParentSet(r, c) == {r.parents[c][i] : i \in 1..Len(r.parents[c])}

RECURSIVE Reach(_, _)
\* The commits reachable from c, c included.
Reach(r, c) == {c} \cup UNION {Reach(r, p) : p \in ParentSet(r, c)}

\* A variant of Hidden that hides the start commit and not its ancestors.
HiddenStartOnly(r, c) == {c}

\* Revwalk::hide(c): c and all its ancestors are hidden from the walk.
Hidden(r, c) == Reach(r, c)

RECURSIVE InsertByDate(_, _, _)
\* The walk's list is kept newest first; a commit goes after those as new as it.
InsertByDate(r, list, c) ==
    IF list = <<>> THEN <<c>>
    ELSE IF r.ctime[Head(list)] < r.ctime[c] THEN <<c>> \o list
    ELSE <<Head(list)>> \o InsertByDate(r, Tail(list), c)

RECURSIVE InsertAll(_, _, _)
InsertAll(r, list, cs) ==
    IF cs = <<>> THEN list
    ELSE InsertAll(r, InsertByDate(r, list, Head(cs)), Tail(cs))

RECURSIVE Walk(_, _, _, _, _)
\* The default sorting of a Revwalk: the newest commit of the list is next, and
\* its parents enter the list when it is taken.
Walk(r, list, seen, hidden, out) ==
    IF list = <<>> THEN out
    ELSE LET c == Head(list)
             IsNew(p) == p \notin seen /\ p \notin hidden
             ps == SelectSeq(r.parents[c], IsNew)
         IN  Walk(r, InsertAll(r, Tail(list), ps), seen \cup ParentSet(r, c),
                  hidden, Append(out, c))

\* Iterating a Revwalk after push(end_c) with the commits of hidden hidden.
Revwalk(r, end_c, hidden) ==
    IF end_c \in hidden THEN <<>> ELSE Walk(r, <<end_c>>, {end_c}, hidden, <<>>)

\* Commit::summary().unwrap_or("<No commit summary>")
commit_summary(r, c) ==
    IF r.message[c] = MsgNotUtf8 THEN NoSummaryText ELSE r.message[c]

\* Object::short_id of a commit: its abbreviated hash.
short_id(c) == CommitRef(c)

CommitBriefInfo(r, c) == [id |-> short_id(c), summary |-> commit_summary(r, c)]

CommitsOk(list) == [tag |-> "Ok", val |-> list, err |-> ""]
CommitsErr(msg) == [tag |-> "Err", val |-> <<>>, err |-> msg]

NotFoundText(ref) == "revspec '" \o ref \o "' not found"

\* A variant of CommitsInfo without the final reverse().
CommitsInfoNewestFirst(r, oids) == [i \in 1..Len(oids) |-> CommitBriefInfo(r, oids[i])]

\* The loop over the walk that fills commits_info, and commits_info.reverse().
CommitsInfo(r, oids) == Reverse([i \in 1..Len(oids) |-> CommitBriefInfo(r, oids[i])])

\* A variant of FindCommitFails in which the error of find_commit is dropped.
FindCommitNeverFails(f, oids) == FALSE

\* repo.find_commit(oid) fails for a commit the walk yields.
FindCommitFails(f, oids) == f = "find_commit" /\ oids # <<>>

get_commit_messages(r, f, start_ref, end_ref) ==
    LET s == revparse_single(r, start_ref)
        e == revparse_single(r, end_ref)
        oids == Revwalk(r, e.commit, Hidden(r, s.commit))
    IN  IF f = "open"
        THEN CommitsErr("Failed to open repository: could not find repository")
        ELSE IF s.kind = "error"
        THEN CommitsErr("Failed to resolve start_ref '" \o start_ref \o "': "
                        \o NotFoundText(start_ref))
        ELSE IF e.kind = "error"
        THEN CommitsErr("Failed to resolve end_ref '" \o end_ref \o "': "
                        \o NotFoundText(end_ref))
        ELSE IF ~IsCommittish(e)
        THEN CommitsErr("Failed to push end_commit_oid: object is not a committish")
        ELSE IF ~IsCommitObject(s)
        THEN CommitsErr("start_ref '" \o start_ref \o "' does not point to a commit")
        ELSE IF f = "revwalk"
        THEN CommitsErr("Error during revwalk: object not found")
        ELSE IF FindCommitFails(f, oids)
        THEN CommitsErr("Failed to find commit " \o CommitRef(Head(oids))
                        \o ": object not found")
        ELSE CommitsOk(CommitsInfo(r, oids))

(***************************************************************************)
(* main.rs: main.                                                          *)
(***************************************************************************)
JiraUrl == [base |-> "http://jira.example", slashes |-> 1]

\* What the tracker may answer to one request.
Responses ==
    {StatusResponse(code) :
        code \in {StatusOK, StatusNotFound, StatusUnauthorized, StatusForbidden, 302, 503}}
    \cup {TransportFailure}

commit_briefs == commits_info_result.val
total_commits == Len(commit_briefs)

\* The commit_brief of the current iteration.
commit_brief == commit_briefs[index + 1]

None == <<>>
Some(x) == <<x>>
\* Option::as_deref().unwrap_or("Unknown validation error.")
ErrorText(error_message) ==
    IF error_message = None THEN "Unknown validation error." ELSE error_message[1]

\* main.rs:75-76, the print! that opens the line of a commit.
ValidatingLine(i, brief) ==
    "  (" \o ToString(i + 1) \o "/" \o ToString(total_commits) \o ") Validating commit "
    \o brief.id \o " ('" \o Str(brief.summary) \o "')... "

\* main.rs:110-115, the rest of the line.
VerdictText(is_valid, error_msg, first_key_details) ==
    IF is_valid THEN "VALID" \o first_key_details
    ELSE "INVALID - Error: " \o ErrorText(error_msg)

CommitValidationInfo(brief, is_valid, error_msg, keys) ==
    [commit_hash_short |-> brief.id,
     commit_summary |-> brief.summary,
     is_valid |-> is_valid,
     error_message |-> error_msg,
     jira_keys_found |-> keys]

\* main.rs:136-148, the details printed for the invalid commits.
RECURSIVE InvalidDetails(_)
InvalidDetails(infos) ==
    IF infos = <<>> THEN <<>>
    ELSE LET info == Head(infos)
         IN  (IF info.is_valid THEN <<>>
              ELSE <<"  - Commit: " \o info.commit_hash_short \o " ('"
                         \o Str(info.commit_summary) \o "')",
                     "    Error: " \o ErrorText(info.error_message),
                     IF info.jira_keys_found # <<>>
                     THEN "    Jira Keys Found: " \o JoinKeys(info.jira_keys_found)
                     ELSE "    Jira Keys Found: None">>)
             \o InvalidDetails(Tail(infos))

\* A variant of ArgsEcho with the println! of the token, which main.rs:48 has
\* as a comment.
ArgsEchoWithToken(a) ==
    <<"Jira URL: " \o UrlText(a.jira_url),
      "Username: " \o a.username,
      "API Token: " \o a.api_token,
      "Start Ref: " \o a.start_ref,
      "End Ref: " \o a.end_ref>>

\* main.rs:45-50: the arguments are echoed, the token is not.
ArgsEcho(a) ==
    <<"Jira URL: " \o UrlText(a.jira_url),
      "Username: " \o a.username,
      "Start Ref: " \o a.start_ref,
      "End Ref: " \o a.end_ref>>

\* main.rs:43-53: the arguments are echoed and the range is fetched.
Start ==
    /\ pc = "start"
    /\ stdout' = stdout \o ArgsEcho(args) \o
            <<"",
              ">>> Step 1: Fetching commit information from Git repository...">>
    /\ commits_info_result' = get_commit_messages(repo, fault, args.start_ref, args.end_ref)
    /\ pc' = "fetched"
    /\ UNCHANGED <<repo, fault, args, index, jira_keys, validation_infos,
                   valid_commits_count, stderr, exit_code, tracker, fn_in, fn_out>>

\* main.rs:55-58
FetchFailed ==
    /\ pc = "fetched"
    /\ commits_info_result.tag = "Err"
    /\ stderr' = Append(stderr, "Error fetching commit information from Git: "
                                \o commits_info_result.err)
    /\ exit_code' = 1
    /\ pc' = "exited"
    /\ UNCHANGED <<repo, fault, args, commits_info_result, index, jira_keys,
                   validation_infos, valid_commits_count, stdout, tracker, fn_in, fn_out>>

\* main.rs:60-65
NoCommits ==
    /\ pc = "fetched"
    /\ commits_info_result.tag = "Ok"
    /\ commit_briefs = <<>>
    /\ stdout' = stdout \o
            <<"No commits found in the specified range (" \o args.start_ref \o ".."
                  \o args.end_ref \o ").",
              "",
              ">>> Final Result: Validation SUCCESSFUL (No commits to validate).">>
    /\ exit_code' = 0
    /\ pc' = "exited"
    /\ UNCHANGED <<repo, fault, args, commits_info_result, index, jira_keys,
                   validation_infos, valid_commits_count, stderr, tracker, fn_in, fn_out>>

\* main.rs:67-73
BeginLoop ==
    /\ pc = "fetched"
    /\ commits_info_result.tag = "Ok"
    /\ commit_briefs # <<>>
    /\ stdout' = stdout \o
            <<"Found " \o ToString(total_commits) \o " commits to validate.",
              "",
              ">>> Step 2: Validating individual commits...">>
    /\ validation_infos' = <<>>
    /\ valid_commits_count' = 0
    /\ index' = 0
    /\ pc' = "loop"
    /\ UNCHANGED <<repo, fault, args, commits_info_result, jira_keys, stderr,
                   exit_code, tracker, fn_in, fn_out>>

\* A variant of LoopDone in which the loop also ends at the first invalid commit.
LoopEndsAtFirstInvalid ==
    \/ index = total_commits
    \/ \E i \in 1..Len(validation_infos) : ~validation_infos[i].is_valid

\* main.rs:74, the for loop is over when every commit_brief has been taken.
LoopDone == index = total_commits

\* main.rs:74-84 and 110-123: an iteration for a commit without a key.
ValidateWithoutKey ==
    /\ pc = "loop"
    /\ ~LoopDone
    /\ LET keys == extract_jira_keys(commit_brief.summary)
           error_msg == Some("No Jira keys found in commit summary.")
       IN  /\ keys = <<>>
           /\ jira_keys' = keys
           /\ stdout' = Append(stdout, ValidatingLine(index, commit_brief)
                                       \o VerdictText(FALSE, error_msg, ""))
           /\ validation_infos' = Append(validation_infos,
                    CommitValidationInfo(commit_brief, FALSE, error_msg, keys))
    /\ index' = index + 1
    /\ UNCHANGED <<pc, repo, fault, args, commits_info_result, valid_commits_count,
                   stderr, exit_code, tracker, fn_in, fn_out>>

\* A variant of FirstKey that takes the key found last.
LastKey(keys) == keys[Len(keys)]

\* main.rs:86, let first_key = &jira_keys[0]
FirstKey(keys) == keys[1]

\* A variant of SendRequest that does not await the answer: the request is left
\* in flight and the loop goes on with the next commit.
SendRequestWithoutAwait ==
    /\ pc = "loop"
    /\ ~LoopDone
    /\ LET keys == extract_jira_keys(commit_brief.summary)
       IN  /\ keys # <<>>
           /\ jira_keys' = keys
           /\ tracker' = Append(tracker,
                    [commit |-> index + 1,
                     url |-> ApiUrl(args.jira_url, FirstKey(keys)),
                     username |-> args.username,
                     api_token |-> args.api_token,
                     issue_key |-> Str(FirstKey(keys)),
                     response |-> Pending])
           /\ validation_infos' = Append(validation_infos,
                    CommitValidationInfo(commit_brief, FALSE, None, keys))
    /\ stdout' = Append(stdout, ValidatingLine(index, commit_brief))
    /\ index' = index + 1
    /\ UNCHANGED <<pc, repo, fault, args, commits_info_result, valid_commits_count,
                   stderr, exit_code, fn_in, fn_out>>

\* main.rs:74-94: an iteration for a commit with a key, up to the await of the
\* request for the first key.
SendRequest ==
    /\ pc = "loop"
    /\ ~LoopDone
    /\ LET keys == extract_jira_keys(commit_brief.summary)
       IN  /\ keys # <<>>
           /\ jira_keys' = keys
           /\ tracker' = Append(tracker,
                    [commit |-> index + 1,
                     url |-> ApiUrl(args.jira_url, FirstKey(keys)),
                     username |-> args.username,
                     api_token |-> args.api_token,
                     issue_key |-> Str(FirstKey(keys)),
                     response |-> Pending])
    /\ stdout' = Append(stdout, ValidatingLine(index, commit_brief))
    /\ pc' = "await"
    /\ UNCHANGED <<repo, fault, args, commits_info_result, index, validation_infos,
                   valid_commits_count, stderr, exit_code, fn_in, fn_out>>

\* A variant of VerdictOf in which a failed lookup counts as valid.
VerdictOfFailOpen(result, first_key) ==
    IF result.tag = "Ok" /\ ~result.val
    THEN [is_valid |-> FALSE,
          error_msg |-> Some("Jira key '" \o Str(first_key)
                             \o "' not found in Jira project (HTTP 404).")]
    ELSE [is_valid |-> TRUE, error_msg |-> None]

\* A variant of VerdictOf that gives no reason when the key is not in the tracker.
VerdictOfWithoutReason(result, first_key) ==
    IF result.tag = "Ok"
    THEN [is_valid |-> result.val, error_msg |-> None]
    ELSE [is_valid |-> FALSE,
          error_msg |-> Some("Error validating Jira key '" \o Str(first_key) \o "': "
                             \o result.err)]

\* main.rs:95-108, the verdict of an answer.
VerdictOf(result, first_key) ==
    IF result.tag = "Ok"
    THEN IF result.val
         THEN [is_valid |-> TRUE, error_msg |-> None]
         ELSE [is_valid |-> FALSE,
               error_msg |-> Some("Jira key '" \o Str(first_key)
                                  \o "' not found in Jira project (HTTP 404).")]
    ELSE [is_valid |-> FALSE,
          error_msg |-> Some("Error validating Jira key '" \o Str(first_key) \o "': "
                             \o result.err)]

\* A variant of ReceiveResponse in which a failed lookup is tried again.
ReceiveResponseRetrying ==
    /\ pc = "await"
    /\ \E response \in Responses :
        LET result == check_jira_issue_exists(args.jira_url, args.username,
                                              args.api_token, FirstKey(jira_keys),
                                              response)
            v == VerdictOf(result, FirstKey(jira_keys))
        IN  /\ tracker' = [tracker EXCEPT ![Len(tracker)].response = response]
            /\ valid_commits_count' =
                    IF v.is_valid THEN valid_commits_count + 1 ELSE valid_commits_count
            /\ validation_infos' =
                    IF result.tag = "Err" THEN validation_infos
                    ELSE Append(validation_infos,
                            CommitValidationInfo(commit_brief, v.is_valid, v.error_msg,
                                                 jira_keys))
            /\ index' = IF result.tag = "Err" THEN index ELSE index + 1
    /\ pc' = "loop"
    /\ UNCHANGED <<repo, fault, args, commits_info_result, jira_keys, stdout, stderr,
                   exit_code, fn_in, fn_out>>

\* main.rs:95-123: the request returns and the iteration ends.
ReceiveResponse ==
    /\ pc = "await"
    /\ \E response \in Responses :
        LET first_key_details == " (Jira Key: " \o Str(FirstKey(jira_keys)) \o ")"
            result == check_jira_issue_exists(args.jira_url, args.username,
                                              args.api_token, FirstKey(jira_keys),
                                              response)
            v == VerdictOf(result, FirstKey(jira_keys))
        IN  /\ tracker' = [tracker EXCEPT ![Len(tracker)].response = response]
            /\ valid_commits_count' =
                    IF v.is_valid THEN valid_commits_count + 1 ELSE valid_commits_count
            /\ stdout' = [stdout EXCEPT ![Len(stdout)] =
                    @ \o VerdictText(v.is_valid, v.error_msg, first_key_details)]
            /\ validation_infos' = Append(validation_infos,
                    CommitValidationInfo(commit_brief, v.is_valid, v.error_msg, jira_keys))
    /\ index' = index + 1
    /\ pc' = "loop"
    /\ UNCHANGED <<repo, fault, args, commits_info_result, jira_keys, stderr,
                   exit_code, fn_in, fn_out>>

\* A variant of invalid_commits_count that forgets to subtract the valid commits.
invalid_commits_not_subtracted == total_commits

\* main.rs:131
invalid_commits_count == total_commits - valid_commits_count

\* A variant of ExitCode that ignores the invalid commits.
ExitCodeAlwaysSuccess(invalid) == 0

\* main.rs:134-154, the argument of std::process::exit.
ExitCode(invalid) == IF invalid > 0 THEN 1 ELSE 0

\* A variant of Summarize that prints the summary and does not exit.
SummarizeWithoutExit ==
    /\ pc = "loop"
    /\ LoopDone
    /\ stdout' = stdout \o
            <<"",
              "-------------------------------------",
              ">>> Step 3: Final Validation Summary",
              "-------------------------------------">>
    /\ pc' = "summarized"
    /\ UNCHANGED <<repo, fault, args, commits_info_result, index, jira_keys,
                   validation_infos, valid_commits_count, stderr, exit_code, tracker,
                   fn_in, fn_out>>

\* main.rs:126-154
Summarize ==
    /\ pc = "loop"
    /\ LoopDone
    /\ stdout' = stdout \o
            <<"",
              "-------------------------------------",
              ">>> Step 3: Final Validation Summary",
              "-------------------------------------",
              "Total commits scanned: " \o ToString(total_commits),
              "Valid commits: " \o ToString(valid_commits_count),
              "Invalid commits: " \o ToString(invalid_commits_count)>>
            \o (IF invalid_commits_count > 0
                THEN <<"", "Details of INVALID commits:">>
                     \o InvalidDetails(validation_infos)
                     \o <<"", ">>> Final Result: Validation FAILED.">>
                ELSE <<"", ">>> Final Result: Validation SUCCESSFUL.">>)
    /\ exit_code' = ExitCode(invalid_commits_count)
    /\ pc' = "exited"
    /\ UNCHANGED <<repo, fault, args, commits_info_result, index, jira_keys,
                   validation_infos, valid_commits_count, stderr, tracker, fn_in, fn_out>>

(***************************************************************************)
(* The runs: a repository with a linear history whose first commit is the  *)
(* initial commit, any two reference names, any fault.                     *)
(***************************************************************************)
LinearParents == [c \in 1..MaxCommits |-> IF c = 1 THEN <<>> ELSE <<c - 1>>]

LinearRepos ==
    {[parents |-> LinearParents, ctime |-> [c \in 1..MaxCommits |-> 1], message |-> m] :
        m \in {f \in [1..MaxCommits -> Messages \cup {InitialCommit}] :
                    /\ f[1] = InitialCommit
                    /\ \A c \in 2..MaxCommits : f[c] # InitialCommit}}

\* The state in which main starts, for the given repositories, faults and
\* command lines.
InitArgs(repos, faults, start_refs, end_refs, tokens) ==
    /\ pc = "start"
    /\ repo \in repos
    /\ fault \in faults
    /\ args \in [jira_url : {JiraUrl}, username : {"testuser"}, api_token : tokens,
                 start_ref : start_refs, end_ref : end_refs]
    /\ commits_info_result = CommitsOk(<<>>)
    /\ index = 0
    /\ jira_keys = <<>>
    /\ validation_infos = <<>>
    /\ valid_commits_count = 0
    /\ stdout = <<>>
    /\ stderr = <<>>
    /\ exit_code = -1
    /\ tracker = <<>>
    /\ fn_in = <<>>
    /\ fn_out = <<>>

InitRun(repos, faults, start_refs, end_refs) ==
    InitArgs(repos, faults, start_refs, end_refs, {"testtoken"})

Init == InitRun(LinearRepos, Faults, RefNames(MaxCommits), RefNames(MaxCommits))

Next ==
    \/ Start
    \/ FetchFailed
    \/ NoCommits
    \/ BeginLoop
    \/ ValidateWithoutKey
    \/ SendRequest
    \/ ReceiveResponse
    \/ Summarize

Spec == Init /\ [][Next]_vars

(***************************************************************************)
(* SpecLive: the runs in which main is scheduled until it exits and every   *)
(* request returns.  main is the only task of the runtime, so each of its   *)
(* steps is taken once it can be; the return of a request is the step of    *)
(* the tracker and of the network, and is assumed here.  The repositories   *)
(* are those of Spec with short commit messages: one with a key, one        *)
(* without, one with two keys; the first commit has no key.                 *)
(***************************************************************************)
LiveMessages ==
    {<<"A","-","1">>, <<"n","o">>, <<"A","-","1"," ","B","-","2">>}

LiveRepos ==
    {[parents |-> LinearParents, ctime |-> [c \in 1..MaxCommits |-> 1], message |-> m] :
        m \in {f \in [1..MaxCommits -> LiveMessages] : f[1] = <<"n","o">>}}

InitLive == InitRun(LiveRepos, Faults, RefNames(MaxCommits), RefNames(MaxCommits))

ProgramStep ==
    \/ Start
    \/ FetchFailed
    \/ NoCommits
    \/ BeginLoop
    \/ ValidateWithoutKey
    \/ SendRequest
    \/ Summarize

SpecLive ==
    /\ InitLive
    /\ [][Next]_vars
    /\ WF_vars(ProgramStep)
    /\ WF_vars(ReceiveResponse)

(***************************************************************************)
(* SpecToken: the runs without faults on the repositories of SpecLive,      *)
(* each with one of two API tokens.                                         *)
(***************************************************************************)
Tokens == {"testtoken", "s3cr3t"}

InitToken ==
    InitArgs(LiveRepos, {"none"}, RefNames(MaxCommits), RefNames(MaxCommits), Tokens)

SpecToken == InitToken /\ [][Next]_vars

(***************************************************************************)
(* SpecEmbedded: the runs of Spec on repositories whose commit summaries    *)
(* hold a key inside a longer token, or something that only looks like a    *)
(* key.                                                                     *)
(***************************************************************************)
MsgLowerPrefix == <<"a","B","C","-","1","2","3">>
MsgInsideToken == <<"x","A","B","C","-","1","2","y">>
MsgTwoHyphens == <<"A","B","C","-","1","2","3","-","4","5","6">>
MsgLowerCase == <<"a","b","c","-","1","2","3">>
MsgNoDigits == <<"A","B","C","-","d","e","f">>

EmbeddedMessages ==
    {MsgLowerPrefix, MsgInsideToken, MsgTwoHyphens, MsgLowerCase, MsgNoDigits}

EmbeddedRepos ==
    {[parents |-> LinearParents, ctime |-> [c \in 1..MaxCommits |-> 1], message |-> m] :
        m \in {f \in [1..MaxCommits -> EmbeddedMessages \cup {InitialCommit}] :
                    /\ f[1] = InitialCommit
                    /\ \A c \in 2..MaxCommits : f[c] # InitialCommit}}

InitEmbedded ==
    InitRun(EmbeddedRepos, {"none"}, RefNames(MaxCommits), RefNames(MaxCommits))

SpecEmbedded == InitEmbedded /\ [][Next]_vars

(***************************************************************************)
(* SpecResolve: the range resolution alone, on every history of            *)
(* GraphCommits commits that grows from one root commit by commits of one  *)
(* or two parents.  Commit times follow the numbering, or all commits were *)
(* made in the same second, or the clock of one commit was off.  The end   *)
(* reference names the newest commit, directly or by the annotated tag;    *)
(* the start reference is any name.                                        *)
(***************************************************************************)
ParentLists(c) ==
    IF c = 1 THEN {<<>>}
    ELSE {<<p>> : p \in 1..(c - 1)}
         \cup {<<pq[1], pq[2]>> : pq \in {x \in (1..(c - 1)) \X (1..(c - 1)) : x[1] # x[2]}}

RECURSIVE HistoriesOf(_)
\* The histories of n commits: a history of n - 1 commits and the parents of
\* one more commit.
HistoriesOf(n) ==
    IF n = 0 THEN {<<>>}
    ELSE {Append(h, ps) : h \in HistoriesOf(n - 1), ps \in ParentLists(n)}

Histories == HistoriesOf(GraphCommits)

Clocks ==
    {[c \in 1..GraphCommits |-> c], [c \in 1..GraphCommits |-> 1]}
    \cup {[c \in 1..GraphCommits |-> IF c = k THEN t ELSE c] :
            k \in 1..GraphCommits, t \in 1..GraphCommits}

AllRepos ==
    {[parents |-> ps, ctime |-> t, message |-> [c \in 1..GraphCommits |-> MsgValidKey]] :
        ps \in Histories, t \in Clocks}

InitResolve ==
    InitRun(AllRepos, {"none"}, RefNames(GraphCommits),
            {CommitRef(GraphCommits), AnnotatedTagRef})

NextResolve == Start

SpecResolve == InitResolve /\ [][NextResolve]_vars

(***************************************************************************)
(* SpecExtract: extract_jira_keys on every text of at most MaxTextLen      *)
(* characters over an alphabet with letters of both cases, the hyphen and  *)
(* a digit.                                                                *)
(***************************************************************************)
Alphabet == {"A", "Z", "a", "-", "7"}

Texts == UNION {[1..n -> Alphabet] : n \in 0..MaxTextLen}

InitPure(inputs) ==
    /\ pc = "call"
    /\ fn_in \in inputs
    /\ fn_out = <<>>
    /\ repo = CHOOSE r \in LinearRepos : TRUE
    /\ fault = "none"
    /\ args = [jira_url |-> JiraUrl, username |-> "testuser", api_token |-> "testtoken",
               start_ref |-> CommitRef(1), end_ref |-> CommitRef(1)]
    /\ commits_info_result = CommitsOk(<<>>)
    /\ index = 0
    /\ jira_keys = <<>>
    /\ validation_infos = <<>>
    /\ valid_commits_count = 0
    /\ stdout = <<>>
    /\ stderr = <<>>
    /\ exit_code = -1
    /\ tracker = <<>>

ExtractCall ==
    /\ pc = "call"
    /\ fn_out' = extract_jira_keys(fn_in)
    /\ pc' = "returned"
    /\ UNCHANGED <<repo, fault, args, commits_info_result, index, jira_keys,
                   validation_infos, valid_commits_count, stdout, stderr, exit_code,
                   tracker, fn_in>>

InitExtract == InitPure(Texts)

NextExtract == ExtractCall

SpecExtract == InitExtract /\ [][NextExtract]_vars

(***************************************************************************)
(* SpecCheck: check_jira_issue_exists on every answer of the tracker: each *)
(* status code of MinStatus..MaxStatus and the transport failure, for two  *)
(* keys.                                                                   *)
(***************************************************************************)
CheckInputs ==
    {[issue_key |-> k, response |-> resp] :
        k \in {<<"A","B","-","1">>, <<"P","R","O","J","-","4","5","6">>},
        resp \in {StatusResponse(code) : code \in MinStatus..MaxStatus}
                 \cup {TransportFailure}}

CheckCall ==
    /\ pc = "call"
    /\ fn_out' = check_jira_issue_exists(args.jira_url, args.username, args.api_token,
                                         fn_in.issue_key, fn_in.response)
    /\ pc' = "returned"
    /\ UNCHANGED <<repo, fault, args, commits_info_result, index, jira_keys,
                   validation_infos, valid_commits_count, stdout, stderr, exit_code,
                   tracker, fn_in>>

InitCheck == InitPure(CheckInputs)

NextCheck == CheckCall

SpecCheck == InitCheck /\ [][NextCheck]_vars

(***************************************************************************)
(* Properties of the run (Spec).                                           *)
(***************************************************************************)
\* The tracker was asked about key for the i-th commit and answered resp.
Answered(i, key, resp) ==
    \E k \in 1..Len(tracker) :
        /\ tracker[k].commit = i
        /\ tracker[k].issue_key = Str(key)
        /\ tracker[k].response = resp

ResolverFailed == pc \in {"fetched", "exited"} /\ commits_info_result.tag = "Err"

\* C1: every validation record carries the keys extracted from its commit summary,
\* and it is valid exactly when that key list is not empty and the tracker answered
\* 200 to the request for its first key; without keys, on 404 and on every failed
\* lookup the record is invalid.
C1_ValidIffFirstKeyExists ==
    \A i \in 1..Len(validation_infos) :
        LET info == validation_infos[i]
            keys == info.jira_keys_found
        IN  /\ keys = extract_jira_keys(commit_briefs[i].summary)
            /\ info.is_valid <=>
                    (keys # <<>> /\ Answered(i, keys[1], StatusResponse(200)))

\* C1 witness: a finished run with a valid record and an invalid record whose
\* commit has a key.
C1_Witness ==
    /\ pc = "exited"
    /\ Len(validation_infos) = 2
    /\ validation_infos[1].is_valid
    /\ ~validation_infos[2].is_valid
    /\ validation_infos[2].jira_keys_found # <<>>

\* C2: the process exits with 0 exactly when the range was resolved and no record
\* is invalid (with an empty range there is no record and no request), and with 1
\* exactly when a record is invalid or the resolver failed; there is no other
\* exit code, and none before the run ends.
C2_ExitCode ==
    /\ pc # "exited" => exit_code = -1
    /\ pc = "exited" =>
        /\ exit_code \in {0, 1}
        /\ exit_code = 0 <=>
                /\ commits_info_result.tag = "Ok"
                /\ Len(validation_infos) = total_commits
                /\ \A i \in 1..Len(validation_infos) : validation_infos[i].is_valid
        /\ exit_code = 1 <=>
                \/ commits_info_result.tag = "Err"
                \/ \E i \in 1..Len(validation_infos) : ~validation_infos[i].is_valid
        /\ (commits_info_result.tag = "Ok" /\ total_commits = 0) =>
                (exit_code = 0 /\ validation_infos = <<>> /\ tracker = <<>>)

\* C2 witness: a run over two commits that exits with 0.
C2_Witness ==
    /\ pc = "exited"
    /\ exit_code = 0
    /\ total_commits = 2
    /\ Len(validation_infos) = 2

\* C3: the loop takes the commits in order and leaves none out: while it runs the
\* records are those of the first index commits, record i covers commit i, and a
\* run that reaches the summary has one record per commit, whatever the outcomes.
C3_OneRecordPerCommitInOrder ==
    (commits_info_result.tag = "Ok" /\ pc \in {"loop", "await", "exited"}) =>
        /\ Len(validation_infos) = index
        /\ index <= total_commits
        /\ \A i \in 1..Len(validation_infos) :
                /\ validation_infos[i].commit_hash_short = commit_briefs[i].id
                /\ validation_infos[i].commit_summary = commit_briefs[i].summary
        /\ pc = "exited" => Len(validation_infos) = total_commits

\* C3 witness: a finished run of two commits whose first commit is invalid and
\* whose second commit was still validated and is valid.
C3_Witness ==
    /\ pc = "exited"
    /\ total_commits = 2
    /\ Len(validation_infos) = 2
    /\ ~validation_infos[1].is_valid
    /\ validation_infos[2].is_valid

KeyProjXyz == <<"P","R","O","J","-","X","Y","Z">>
KeyProjAbc == <<"P","R","O","J","-","A","B","C">>

\* The tracker of test_failed_key_not_found_in_jira: 404 for PROJ-XYZ, 200 for
\* PROJ-ABC.
MockedTracker ==
    \A k \in 1..Len(tracker) :
        /\ tracker[k].issue_key = Str(KeyProjXyz)
                => tracker[k].response = StatusResponse(404)
        /\ tracker[k].issue_key = Str(KeyProjAbc)
                => tracker[k].response = StatusResponse(200)

\* C4: for the two commits 'fix: PROJ-XYZ Resolve non-existent issue' and
\* 'feat: PROJ-ABC Implement a real feature', with 404 for PROJ-XYZ and 200 for
\* PROJ-ABC, the first record is invalid because PROJ-XYZ was not found (HTTP 404),
\* the second is valid for PROJ-ABC, one commit is valid, one invalid, and the run
\* exits with 1.
C4_NotFoundScenario ==
    (/\ pc = "exited"
     /\ commits_info_result.tag = "Ok"
     /\ total_commits = 2
     /\ commit_briefs[1].summary = MsgProjXyz
     /\ commit_briefs[2].summary = MsgProjAbc
     /\ MockedTracker)
    => /\ Len(validation_infos) = 2
       /\ ~validation_infos[1].is_valid
       /\ validation_infos[1].error_message =
              Some("Jira key 'PROJ-XYZ' not found in Jira project (HTTP 404).")
       /\ validation_infos[2].is_valid
       /\ validation_infos[2].jira_keys_found # <<>>
       /\ validation_infos[2].jira_keys_found[1] = KeyProjAbc
       /\ valid_commits_count = 1
       /\ invalid_commits_count = 1
       /\ exit_code = 1

\* The requests the tracker received for the i-th commit.
RequestsFor(i) == {k \in 1..Len(tracker) : tracker[k].commit = i}

\* C11: for a commit whose summary holds several keys, the tracker is asked about
\* the first key and about no other key, all the keys are kept in the record, and
\* the answer for the first key alone decides: the record is valid exactly when
\* that answer is 200.
C11_FirstKeyDecides ==
    \A i \in 1..Len(validation_infos) :
        LET info == validation_infos[i]
            keys == info.jira_keys_found
        IN  Len(keys) >= 2 =>
                /\ keys = extract_jira_keys(commit_briefs[i].summary)
                /\ Cardinality(RequestsFor(i)) = 1
                /\ \A k \in RequestsFor(i) :
                        /\ tracker[k].issue_key = Str(keys[1])
                        /\ tracker[k].url = ApiUrl(args.jira_url, keys[1])
                        /\ \A n \in 2..Len(keys) :
                                keys[n] # keys[1] => tracker[k].issue_key # Str(keys[n])
                        /\ info.is_valid <=> tracker[k].response = StatusResponse(200)
                /\ ~info.is_valid =>
                        \E k \in RequestsFor(i) :
                            info.error_message \in
                              {Some("Jira key '" \o Str(keys[1])
                                    \o "' not found in Jira project (HTTP 404)."),
                               Some("Error validating Jira key '" \o Str(keys[1]) \o "': "
                                    \o check_jira_issue_exists(args.jira_url,
                                            args.username, args.api_token, keys[1],
                                            tracker[k].response).err)}

\* C11 witness: a finished run with two commits of two keys each, the first
\* invalid because its first key was answered 404, the second valid.
C11_Witness ==
    /\ pc = "exited"
    /\ Len(validation_infos) = 2
    /\ Len(validation_infos[1].jira_keys_found) = 2
    /\ Len(validation_infos[2].jira_keys_found) = 2
    /\ ~validation_infos[1].is_valid
    /\ \E k \in RequestsFor(1) : tracker[k].response = StatusResponse(404)
    /\ validation_infos[2].is_valid

\* The records with the given verdict.
RecordsWith(verdict) ==
    {i \in 1..Len(validation_infos) : validation_infos[i].is_valid = verdict}

\* The lines printed before the summary of a run over a range that is not empty:
\* six for the arguments and step 1, three for the count and step 2, one for each
\* commit.
LinesBeforeSummary == 9 + total_commits

\* C12: in the summary of a run that went through the loop the three counts
\* printed are the number of commits of the range, the number of valid records
\* and the number of invalid records, the last two add up to the first, and the
\* result printed is SUCCESSFUL, with exit code 0, exactly when no record is
\* invalid; while the loop runs the counter of valid commits is the number of
\* valid records; a range without commits is reported successful.
C12_CountsAddUp ==
    /\ (commits_info_result.tag = "Ok" /\ pc \in {"loop", "await", "exited"}) =>
            valid_commits_count = Cardinality(RecordsWith(TRUE))
    /\ (pc = "exited" /\ commits_info_result.tag = "Ok" /\ total_commits = 0) =>
            /\ stdout[Len(stdout)] =
                    ">>> Final Result: Validation SUCCESSFUL (No commits to validate)."
            /\ exit_code = 0
    /\ (pc = "exited" /\ commits_info_result.tag = "Ok" /\ total_commits > 0) =>
            LET total == Len(commits_info_result.val)
                valid == Cardinality(RecordsWith(TRUE))
                invalid == Cardinality(RecordsWith(FALSE))
            IN  /\ valid + invalid = total
                /\ stdout[LinesBeforeSummary + 5] =
                        "Total commits scanned: " \o ToString(total)
                /\ stdout[LinesBeforeSummary + 6] = "Valid commits: " \o ToString(valid)
                /\ stdout[LinesBeforeSummary + 7] =
                        "Invalid commits: " \o ToString(invalid)
                /\ stdout[Len(stdout)] \in
                        {">>> Final Result: Validation SUCCESSFUL.",
                         ">>> Final Result: Validation FAILED."}
                /\ stdout[Len(stdout)] = ">>> Final Result: Validation SUCCESSFUL."
                        <=> invalid = 0
                /\ exit_code = 0 <=> invalid = 0

\* C12 witness: the summary of a run over two commits, one valid and one invalid.
C12_Witness ==
    /\ pc = "exited"
    /\ total_commits = 2
    /\ Cardinality(RecordsWith(TRUE)) = 1
    /\ Cardinality(RecordsWith(FALSE)) = 1
    /\ stdout[Len(stdout)] = ">>> Final Result: Validation FAILED."

\* The commits of the range whose summary holds a key.
CommitsWithKey ==
    {i \in 1..total_commits : extract_jira_keys(commit_briefs[i].summary) # <<>>}

\* The answers that are a failed lookup: not 200, not 404.
FailedLookup(response) ==
    \/ response.kind = "transport"
    \/ response.kind = "status" /\ response.code \notin {200, 404}

\* C14: the tracker receives one request for each commit whose summary holds a key
\* and none for a commit without a key, in the order of the commits, so that a
\* finished run has sent as many requests as there are commits with a key; a
\* request is never sent again after a failed lookup, which gives the invalid
\* record of its commit and lets the run go on to the summary; a run whose range
\* was not resolved sends none.
C14_OneRequestPerCommitWithKey ==
    /\ ResolverFailed => tracker = <<>>
    /\ (commits_info_result.tag = "Ok" /\ pc \in {"loop", "await", "exited"}) =>
        /\ \A i \in 1..Len(validation_infos) :
                Cardinality(RequestsFor(i)) = IF i \in CommitsWithKey THEN 1 ELSE 0
        /\ \A k, l \in 1..Len(tracker) : k < l => tracker[k].commit < tracker[l].commit
        /\ \A k \in 1..Len(tracker) : tracker[k].commit \in CommitsWithKey
        /\ \A k \in 1..Len(tracker) :
                (FailedLookup(tracker[k].response)) =>
                    /\ tracker[k].commit <= Len(validation_infos)
                    /\ ~validation_infos[tracker[k].commit].is_valid
                    /\ pc = "exited" => Len(validation_infos) = total_commits
        /\ pc = "exited" => Len(tracker) = Cardinality(CommitsWithKey)

\* C14 witness: a finished run over a commit with a key, whose lookup failed, and
\* a commit without a key: one request, two records.
C14_Witness ==
    /\ pc = "exited"
    /\ total_commits = 2
    /\ CommitsWithKey = {1}
    /\ Len(tracker) = 1
    /\ FailedLookup(tracker[1].response)
    /\ Len(validation_infos) = 2

\* The requests that have not been answered.
InFlight == {k \in 1..Len(tracker) : tracker[k].response = Pending}

\* A step that sends a request.
RequestSent == Len(tracker') = Len(tracker) + 1

\* C15: at most one request is in flight, it is the one sent last and main is
\* awaiting it; a request is sent only when no request is in flight and the
\* record of every earlier commit has been made, and no record is made while
\* the request of its commit is in flight.
C15_OneRequestAtATime ==
    /\ [](/\ Cardinality(InFlight) <= 1
          /\ InFlight # {} <=> pc = "await"
          /\ InFlight \subseteq {Len(tracker)}
          /\ \A k \in 1..Len(tracker) :
                IF k \in InFlight
                THEN Len(validation_infos) = tracker[k].commit - 1
                ELSE Len(validation_infos) >= tracker[k].commit)
    /\ [][RequestSent =>
            /\ InFlight = {}
            /\ Len(validation_infos) = tracker'[Len(tracker')].commit - 1
            /\ validation_infos' = validation_infos]_vars

\* C15 witness: the request of the second commit is in flight and the first
\* commit, which had a request of its own, has its record.
C15_Witness ==
    /\ pc = "await"
    /\ Len(tracker) = 2
    /\ InFlight = {2}
    /\ tracker[1].commit = 1
    /\ tracker[2].commit = 2
    /\ Len(validation_infos) = 1

\* The answer to the request made for the i-th commit.
ResponseFor(i) == tracker[CHOOSE k \in RequestsFor(i) : TRUE].response

\* The reason a record must carry, from the keys of its commit and the answer of
\* the tracker: none when the answer is 200.
ExpectedReason(i) ==
    LET keys == extract_jira_keys(commit_briefs[i].summary)
        key == Str(keys[1])
        url == "http://jira.example/rest/api/2/issue/" \o key
        response == ResponseFor(i)
    IN  IF keys = <<>> THEN Some("No Jira keys found in commit summary.")
        ELSE IF response = StatusResponse(200) THEN None
        ELSE IF response = StatusResponse(404)
        THEN Some("Jira key '" \o key \o "' not found in Jira project (HTTP 404).")
        ELSE IF response = StatusResponse(401)
        THEN Some("Error validating Jira key '" \o key
                  \o "': Unauthorized (401): Failed to authenticate with Jira at "
                  \o url \o ". Check credentials.")
        ELSE Some("Error validating Jira key '" \o key \o "': "
                  \o check_jira_issue_exists(args.jira_url, args.username,
                                             args.api_token, keys[1], response).err)

\* C16: a record carries a reason exactly when it is invalid, and the reason is
\* 'No Jira keys found in commit summary.' for a commit without a key, 'Jira key
\* K not found in Jira project (HTTP 404).' for a 404, and 'Error validating Jira
\* key K: ' followed by the text of the failed lookup otherwise, K being the
\* first key; the reason is what the line of the commit shows after 'INVALID -
\* Error: '.
C16_ReasonIffInvalid ==
    (commits_info_result.tag = "Ok" /\ pc \in {"loop", "await", "exited"}) =>
        \A i \in 1..Len(validation_infos) :
            LET info == validation_infos[i]
            IN  /\ info.error_message # None <=> ~info.is_valid
                /\ info.error_message = ExpectedReason(i)
                /\ ~info.is_valid =>
                        stdout[9 + i] = ValidatingLine(i - 1, commit_briefs[i])
                                        \o "INVALID - Error: " \o info.error_message[1]

\* C16 witness: a finished run with a record invalid for a 401, one invalid for
\* a 404 or a missing key, both with their reasons.
C16_Witness ==
    /\ pc = "exited"
    /\ Len(validation_infos) = 2
    /\ RequestsFor(1) # {}
    /\ ResponseFor(1) = StatusResponse(401)
    /\ validation_infos[1].error_message =
            Some("Error validating Jira key 'PROJ-123': Unauthorized (401): Failed to "
                 \o "authenticate with Jira at http://jira.example/rest/api/2/issue/"
                 \o "PROJ-123. Check credentials.")
    /\ validation_infos[2].error_message # None

\* A step in which the request in flight returns.
RequestReturns ==
    /\ Len(tracker') = Len(tracker)
    /\ tracker[Len(tracker)].response = Pending
    /\ tracker'[Len(tracker)].response # Pending

\* C17: when every request returns the run ends with an exit code, and a run
\* that went through the loop ends with a record for every commit; while a
\* request is in flight main is blocked at its commit: there is no exit code and
\* no summary, the commit has no record, and the only step that can be taken is
\* the return of the request, so that a request that never returns leaves the
\* run there for ever.
C17_EndsUnlessBlocked ==
    /\ <>(pc = "exited" /\ exit_code \in {0, 1})
    /\ [](pc = "exited" /\ commits_info_result.tag = "Ok"
            => Len(validation_infos) = total_commits)
    /\ [](pc = "await" =>
            /\ exit_code = -1
            /\ index < total_commits
            /\ Len(validation_infos) = index
            /\ Len(stdout) = 9 + index + 1
            /\ ~ENABLED <<ProgramStep>>_vars)
    /\ [][pc = "await" => RequestReturns]_vars

\* C17 witness: a run that waited for two requests has exited.
C17_Witness ==
    /\ pc = "exited"
    /\ exit_code \in {0, 1}
    /\ Len(tracker) = 2
    /\ Len(validation_infos) = 2

\* The verdict of the i-th commit had the run been given the token t, the
\* tracker answering as it did.
VerdictWithToken(i, t) ==
    LET keys == extract_jira_keys(commit_briefs[i].summary)
    IN  IF keys = <<>>
        THEN [is_valid |-> FALSE,
              error_msg |-> Some("No Jira keys found in commit summary.")]
        ELSE VerdictOf(check_jira_issue_exists(args.jira_url, args.username, t,
                                               keys[1], ResponseFor(i)),
                       keys[1])

\* The records of the first n commits for the token t.
RecordsWithToken(n, t) ==
    [i \in 1..n |->
        CommitValidationInfo(commit_briefs[i], VerdictWithToken(i, t).is_valid,
                             VerdictWithToken(i, t).error_msg,
                             extract_jira_keys(commit_briefs[i].summary))]

\* The line of the i-th commit for the token t.
CommitLineWithToken(i, t) ==
    LET v == VerdictWithToken(i, t)
        keys == extract_jira_keys(commit_briefs[i].summary)
    IN  "  (" \o ToString(i) \o "/" \o ToString(total_commits)
        \o ") Validating commit " \o commit_briefs[i].id \o " ('"
        \o Str(commit_briefs[i].summary) \o "')... "
        \o (IF v.is_valid THEN "VALID (Jira Key: " \o Str(keys[1]) \o ")"
            ELSE "INVALID - Error: " \o v.error_msg[1])

\* The lines of the arguments, made of the URL, the user and the references.
EchoWithoutToken ==
    <<"Jira URL: http://jira.example/",
      "Username: testuser",
      "Start Ref: " \o args.start_ref,
      "End Ref: " \o args.end_ref,
      "",
      ">>> Step 1: Fetching commit information from Git repository...">>

\* Standard output of a run that has validated its commits and exited, for the
\* token t.
StdoutWithToken(t) ==
    LET records == RecordsWithToken(total_commits, t)
        invalid == Cardinality({i \in 1..total_commits : ~records[i].is_valid})
    IN  EchoWithoutToken
        \o <<"Found " \o ToString(total_commits) \o " commits to validate.",
             "",
             ">>> Step 2: Validating individual commits...">>
        \o [i \in 1..total_commits |-> CommitLineWithToken(i, t)]
        \o <<"",
             "-------------------------------------",
             ">>> Step 3: Final Validation Summary",
             "-------------------------------------",
             "Total commits scanned: " \o ToString(total_commits),
             "Valid commits: " \o ToString(total_commits - invalid),
             "Invalid commits: " \o ToString(invalid)>>
        \o (IF invalid > 0
            THEN <<"", "Details of INVALID commits:">>
                 \o InvalidDetails(records)
                 \o <<"", ">>> Final Result: Validation FAILED.">>
            ELSE <<"", ">>> Final Result: Validation SUCCESSFUL.">>)

\* C19: what a run reports is a function of the repository, the URL, the user,
\* the references and the answers of the tracker, and not of the API token: the
\* lines of the arguments hold the other four arguments only, and the records,
\* standard output and the exit code of a finished run are those that follow
\* from the same answers for every token; standard error holds no line of a
\* run that resolved its range.  The token goes to the tracker with each request.
C19_TokenDoesNotShow ==
    /\ \A k \in 1..Len(tracker) : tracker[k].api_token = args.api_token
    /\ pc # "start" => SubSeq(stdout, 1, 6) = EchoWithoutToken
    /\ (pc \in {"loop", "await", "exited"} /\ commits_info_result.tag = "Ok") =>
            \A t \in Tokens :
                /\ validation_infos = RecordsWithToken(Len(validation_infos), t)
                /\ stderr = <<>>
    /\ (pc = "exited" /\ commits_info_result.tag = "Ok" /\ total_commits > 0) =>
            \A t \in Tokens :
                /\ stdout = StdoutWithToken(t)
                /\ exit_code =
                      IF \E i \in 1..total_commits : ~VerdictWithToken(i, t).is_valid
                      THEN 1 ELSE 0
    /\ (pc = "exited" /\ commits_info_result.tag = "Ok" /\ total_commits = 0) =>
            /\ stdout = EchoWithoutToken \o
                    <<"No commits found in the specified range (" \o args.start_ref
                          \o ".." \o args.end_ref \o ").",
                      "",
                      ">>> Final Result: Validation SUCCESSFUL (No commits to validate).">>
            /\ exit_code = 0
    /\ (pc = "exited" /\ commits_info_result.tag = "Err") =>
            /\ stdout = EchoWithoutToken
            /\ stderr = <<"Error fetching commit information from Git: "
                          \o get_commit_messages(repo, fault, args.start_ref,
                                                 args.end_ref).err>>
            /\ exit_code = 1

\* C19 witness: a finished run with the second token in which the tracker
\* refused the token with 401 for one commit and found the key of the other.
C19_Witness ==
    /\ pc = "exited"
    /\ args.api_token = "s3cr3t"
    /\ Len(tracker) = 2
    /\ tracker[1].api_token = "s3cr3t"
    /\ tracker[1].response = StatusResponse(401)
    /\ tracker[2].response = StatusResponse(200)
    /\ Len(validation_infos) = 2

\* The ways get_commit_messages is made to fail here: a reference that does not
\* resolve, a start reference that is a tree, a failing open, walk or lookup.
ResolverMustFail ==
    \/ revparse_single(repo, args.start_ref).kind \in {"error", "tree"}
    \/ revparse_single(repo, args.end_ref).kind = "error"
    \/ fault \in {"open", "revwalk"}
    \/ /\ fault = "find_commit"
       /\ revparse_single(repo, args.start_ref).kind = "commit"
       /\ revparse_single(repo, args.end_ref).kind \in {"commit", "tag"}
       /\ Reach(repo, revparse_single(repo, args.end_ref).commit)
            \ Reach(repo, revparse_single(repo, args.start_ref).commit) # {}

\* C5: when the resolver fails the run is over before any commit is evaluated:
\* the failure carries no commit, no record is made, no request is sent, nothing
\* is printed for a commit, and the process exits with 1.
C5_ResolverFailureAborts ==
    /\ (pc \in {"fetched", "exited"} /\ ResolverMustFail) => ResolverFailed
    /\ ResolverFailed =>
        /\ commits_info_result.val = <<>>
        /\ validation_infos = <<>>
        /\ tracker = <<>>
        /\ index = 0
        /\ Len(stdout) = 6
        /\ pc = "exited" => exit_code = 1

\* C5 witness: the lookup of a commit failed during the walk of a range that is
\* not empty, and the run has exited.
C5_Witness ==
    /\ pc = "exited"
    /\ fault = "find_commit"
    /\ commits_info_result.tag = "Err"
    /\ revparse_single(repo, args.start_ref).kind = "commit"
    /\ exit_code = 1

\* C6: when the start reference does not resolve, standard output is empty and
\* the failure, naming the reference, is on standard error only.
C6_NothingOnStdout ==
    (/\ pc = "exited"
     /\ fault = "none"
     /\ revparse_single(repo, args.start_ref).kind = "error")
    => /\ stdout = <<>>
       /\ stderr = <<"Error fetching commit information from Git: "
                     \o "Failed to resolve start_ref '" \o args.start_ref \o "': "
                     \o NotFoundText(args.start_ref)>>

(***************************************************************************)
(* Properties of check_jira_issue_exists (SpecCheck).                      *)
(***************************************************************************)
\* C7: the verdict is a function of the answer alone, by this table: 200 is
\* Ok(true), 404 is Ok(false), 401 an error that starts with 'Unauthorized
\* (401)', 403 one that starts with 'Forbidden (403)', 500..599 a 'Jira server
\* error', every other status an 'Unexpected response status', and a transport
\* failure an error that carries the text of the failure.
C7_StatusMapping ==
    pc = "returned" =>
        LET code == fn_in.response.code
            key == Str(fn_in.issue_key)
            url == "http://jira.example/rest/api/2/issue/" \o key
            expected ==
                IF fn_in.response.kind = "transport"
                THEN ResultErr("Request to " \o url \o " failed: " \o TransportErrorText)
                ELSE IF code = 200 THEN ResultOk(TRUE)
                ELSE IF code = 404 THEN ResultOk(FALSE)
                ELSE IF code = 401
                THEN ResultErr("Unauthorized (401): Failed to authenticate with Jira at "
                               \o url \o ". Check credentials.")
                ELSE IF code = 403
                THEN ResultErr("Forbidden (403): Insufficient permissions for Jira issue "
                               \o key \o " at " \o url \o ".")
                ELSE IF code \in 500..599
                THEN ResultErr("Jira server error (" \o StatusDisplay(code)
                               \o ") for issue " \o key \o " at " \o url \o ".")
                ELSE ResultErr("Unexpected response status (" \o StatusDisplay(code)
                               \o ") for issue " \o key \o " at " \o url \o ".")
        IN  /\ fn_out = expected
            /\ fn_out.tag = "Ok" <=>
                    (fn_in.response.kind = "status" /\ code \in {200, 404})
            /\ (fn_out.tag = "Ok" /\ fn_out.val) <=>
                    (fn_in.response.kind = "status" /\ code = 200)

\* C7 witness: a status above the 5xx range was mapped to a failed lookup.
C7_Witness ==
    /\ pc = "returned"
    /\ fn_in.response.kind = "status"
    /\ fn_in.response.code = 600
    /\ fn_out.tag = "Err"

(***************************************************************************)
(* Properties of get_commit_messages (SpecResolve).                        *)
(***************************************************************************)
StartObject == revparse_single(repo, args.start_ref)
EndObject == revparse_single(repo, args.end_ref)

CommitOfId(id) == CHOOSE c \in CommitsOf(repo) : short_id(c) = id

\* The commits of the returned sequence, in its order.
ResolvedCommits ==
    [i \in 1..Len(commits_info_result.val) |-> CommitOfId(commits_info_result.val[i].id)]

ResolvedSet == {ResolvedCommits[i] : i \in 1..Len(ResolvedCommits)}

\* The commits reachable from the end reference and not from the start reference.
RangeSet == Reach(repo, EndObject.commit) \ Reach(repo, StartObject.commit)

Resolved == pc = "fetched" /\ commits_info_result.tag = "Ok"

\* C8: for a start reference that is a commit and an end reference that is a
\* commit or peels to one, the resolver returns the commits reachable from the
\* end and not reachable from the start, in every graph: nothing the start
\* reaches is returned, the start need not be an ancestor of the end, and the
\* range of a commit to itself is empty.  It returns a range in no other case.
C8_RangeIsSetDifference ==
    pc = "fetched" =>
        /\ (StartObject.kind = "commit" /\ EndObject.kind \in {"commit", "tag"})
                <=> commits_info_result.tag = "Ok"
        /\ commits_info_result.tag = "Ok" =>
                /\ ResolvedSet = RangeSet
                /\ ResolvedSet \cap Reach(repo, StartObject.commit) = {}
                /\ StartObject.commit = EndObject.commit
                        => commits_info_result.val = <<>>

\* C8 witness: the start is not an ancestor of the end, both share an ancestor,
\* and the range is not empty.
C8_Witness ==
    /\ Resolved
    /\ StartObject.commit \notin Reach(repo, EndObject.commit)
    /\ Reach(repo, StartObject.commit) \cap Reach(repo, EndObject.commit) # {}
    /\ commits_info_result.val # <<>>

\* The returned sequence is the walk's sequence reversed, one element per commit
\* of the range, no identifier twice.
ReversedWalk ==
    LET oids == Revwalk(repo, EndObject.commit, Reach(repo, StartObject.commit))
        out == commits_info_result.val
    IN  /\ Len(out) = Cardinality(RangeSet)
        /\ Len(out) = Len(oids)
        /\ \A i \in 1..Len(out) : out[i].id = short_id(oids[Len(oids) + 1 - i])
        /\ \A i, j \in 1..Len(out) : i # j => out[i].id # out[j].id

\* No commit of the returned sequence comes before one of its ancestors.
AncestorsFirst ==
    \A i, j \in 1..Len(ResolvedCommits) :
        i < j => ResolvedCommits[j] \notin Reach(repo, ResolvedCommits[i])

\* In the range every commit is newer than its parents.
TimesGrow ==
    \A c \in RangeSet : \A p \in ParentSet(repo, c) \cap RangeSet :
        repo.ctime[p] < repo.ctime[c]

\* C9 as stated: N elements, distinct identifiers, the reversed walk, and no
\* commit before one of its ancestors.
C9_AncestorsAlwaysFirst == Resolved => (ReversedWalk /\ AncestorsFirst)

\* C9 amended: N elements, distinct identifiers, the reversed walk; the commit of
\* the end reference is last and every other commit comes before one of its
\* children; no commit comes before an ancestor when every commit of the range
\* is newer than its parents.
C9_ReversedWalkOrder ==
    Resolved =>
        /\ ReversedWalk
        /\ \A i \in 1..Len(ResolvedCommits) :
                \/ /\ i = Len(ResolvedCommits)
                   /\ ResolvedCommits[i] = EndObject.commit
                \/ \E j \in (i + 1)..Len(ResolvedCommits) :
                        ResolvedCommits[i] \in ParentSet(repo, ResolvedCommits[j])
        /\ TimesGrow => AncestorsFirst

\* C9 witness: a range of three commits returned with a commit before its parent.
C9_Witness ==
    /\ Resolved
    /\ Len(ResolvedCommits) = 3
    /\ ~AncestorsFirst

\* C13 as stated: a start reference that is a commit, or a tag of one, is taken
\* as the exclusive lower boundary of the range; a start reference that resolves
\* to another object makes the resolver fail with 'does not point to a commit'.
C13_StartPeeledToCommit ==
    (pc = "fetched" /\ EndObject.kind \in {"commit", "tag"}) =>
        /\ StartObject.kind \in {"commit", "tag"} =>
                /\ commits_info_result.tag = "Ok"
                /\ ResolvedSet = RangeSet
        /\ StartObject.kind = "tree" =>
                commits_info_result =
                    CommitsErr("start_ref '" \o args.start_ref
                               \o "' does not point to a commit")

(***************************************************************************)
(* Properties of extract_jira_keys (SpecExtract).                          *)
(***************************************************************************)
\* text[s..e] is one or more uppercase letters, a hyphen, one or more digits.
IsKeyAt(text, s, e) ==
    \E h \in (s + 1)..(e - 1) :
        /\ text[h] = "-"
        /\ \A k \in s..(h - 1) : text[k] \in UpperCase
        /\ \A k \in (h + 1)..e : text[k] \in Digits

KeyStarts(text, from) ==
    {s \in from..Len(text) : \E e \in s..Len(text) : IsKeyAt(text, s, e)}

Min(S) == CHOOSE x \in S : \A y \in S : x <= y
Max(S) == CHOOSE x \in S : \A y \in S : x >= y

RECURSIVE LeftmostKeys(_, _)
\* The leftmost key at or after from, as long as it can be, then those after it.
LeftmostKeys(text, from) ==
    IF KeyStarts(text, from) = {} THEN <<>>
    ELSE LET s == Min(KeyStarts(text, from))
             e == Max({x \in s..Len(text) : IsKeyAt(text, s, x)})
         IN  <<SubSeq(text, s, e)>> \o LeftmostKeys(text, e + 1)

\* C10: the keys returned are the leftmost, non-overlapping, longest occurrences
\* of uppercase letters, hyphen, digits, in order of appearance and with
\* repetitions; a text without an occurrence (the empty text, a text whose
\* letters are lowercase) gives the empty list.
C10_LeftmostMaximalMatches ==
    pc = "returned" =>
        /\ fn_out = LeftmostKeys(fn_in, 1)
        /\ (\A k \in 1..Len(fn_in) : fn_in[k] \notin UpperCase) => fn_out = <<>>

\* C10 witness: the same key was found twice in a text, next to a lowercase
\* look-alike that was not.
C10_Witness ==
    /\ pc = "returned"
    /\ fn_in = <<"A","-","7","A","-","7">>
    /\ fn_out = << <<"A","-","7">>, <<"A","-","7">> >>

(***************************************************************************)
(* Properties of the run on summaries with embedded keys (SpecEmbedded).   *)
(***************************************************************************)
\* The hyphens of a text that have an uppercase letter before and a digit after.
KeyHyphens(text) ==
    {h \in 2..(Len(text) - 1) :
        text[h] = "-" /\ text[h - 1] \in UpperCase /\ text[h + 1] \in Digits}

\* The uppercase letters before the hyphen at h, the hyphen, the digits after it.
KeyAround(text, h) ==
    LET s == Min({x \in 1..(h - 1) : \A k \in x..(h - 1) : text[k] \in UpperCase})
        e == Max({x \in (h + 1)..Len(text) : \A k \in (h + 1)..x : text[k] \in Digits})
    IN  SubSeq(text, s, e)

\* One key for each such hyphen, in the order of the hyphens, whatever stands
\* before the letters and after the digits.
KeysAtHyphens(text) ==
    LET hs == KeyHyphens(text)
        nth(n) == CHOOSE h \in hs : Cardinality({x \in hs : x < h}) = n - 1
    IN  [n \in 1..Cardinality(hs) |-> KeyAround(text, nth(n))]

\* C18: the keys of a summary are the runs of uppercase letters followed by a
\* hyphen and digits wherever they stand, inside a longer token too: 'aBC-123'
\* gives 'BC-123', 'xABC-12y' gives 'ABC-12', 'ABC-123-456' gives 'ABC-123'
\* alone; and the commit of such a summary has a key: the tracker is asked about
\* the fragment.
C18_NoWordBoundary ==
    /\ \A i \in 1..Len(validation_infos) :
        LET summary == commit_briefs[i].summary
            keys == validation_infos[i].jira_keys_found
        IN  /\ keys = KeysAtHyphens(summary)
            /\ summary = MsgLowerPrefix => keys = << <<"B","C","-","1","2","3">> >>
            /\ summary = MsgInsideToken => keys = << <<"A","B","C","-","1","2">> >>
            /\ summary = MsgTwoHyphens => keys = << <<"A","B","C","-","1","2","3">> >>
            /\ summary \in {MsgLowerCase, MsgNoDigits} => keys = <<>>
            /\ keys # <<>> =>
                    \E k \in RequestsFor(i) :
                        /\ tracker[k].issue_key = Str(keys[1])
                        /\ tracker[k].url =
                                "http://jira.example/rest/api/2/issue/" \o Str(keys[1])
            /\ keys = <<>> => RequestsFor(i) = {}
    /\ pc = "await" =>
            /\ jira_keys = KeysAtHyphens(commit_brief.summary)
            /\ tracker[Len(tracker)].issue_key = Str(jira_keys[1])

\* C18 witness: a finished run in which the tracker was asked about BC-123 for
\* the summary 'aBC-123' and about ABC-12 for 'xABC-12y', and found the first.
C18_Witness ==
    /\ pc = "exited"
    /\ Len(validation_infos) = 2
    /\ commit_briefs[1].summary = MsgLowerPrefix
    /\ commit_briefs[2].summary = MsgInsideToken
    /\ Answered(1, <<"B","C","-","1","2","3">>, StatusResponse(200))
    /\ \E k \in RequestsFor(2) : tracker[k].issue_key = "ABC-12"
    /\ validation_infos[1].is_valid

====
